---- MODULE Spec2Model ----
(***************************************************************************)
(* Conv2DTranspose_tied (src/conv2d_transpose_tied.py): a transposed 2D    *)
(* convolution layer whose kernel is the tied layer's kernel with its      *)
(* first two axes exchanged.  The model follows one layer instance through *)
(* build, call, compute_output_shape and get_config.                       *)
(*                                                                         *)
(* Shapes are sequences of integers; None stands for Python's None in a    *)
(* shape slot and NoShape for an output shape that is None as a whole.     *)
(* A runtime batch size (K.shape(inputs)[0]) is modelled by its value.     *)
(***************************************************************************)
EXTENDS Integers, Sequences, FiniteSets, TLC

\* ------------------------------------------------------------------ bounds
\* kernel extents and strides range over 1..MaxKS on each axis
MaxKS == 2
\* spatial input lengths range over 1..MaxLen
MaxLen == 3
\* build is not followed further once MaxBias bias weights are allocated
MaxBias == 2
\* the batch size of every input whose batch size is known
Batch == 2
\* the layer's filter count
Filters == 2
\* the channel count of the inputs handed to call and compute_output_shape
Channels == 1
\* the largest rank of a shape handed to build
MaxRank == 5

\* ------------------------------------------------------- values and helpers
None == -1

NoShape == <<>>

NoTensor == [shape |-> <<>>, val |-> <<>>]

Max(a, b) == IF a >= b THEN a ELSE b

\* Python's seq[i]: 0-based, negative indices count from the end
Idx(seq, i) == IF i >= 0 THEN seq[i + 1] ELSE seq[Len(seq) + i + 1]

\* the index tuples (0-based entries) of a tensor of the given shape
Indices(shape) ==
    IF Len(shape) = 0 THEN {}
    ELSE {<<a, b, c, d>> : a \in 0..(shape[1] - 1), b \in 0..(shape[2] - 1),
                           c \in 0..(shape[3] - 1), d \in 0..(shape[4] - 1)}

\* tf.transpose(t, perm): axis i of the result is axis perm[i] of t
tf_transpose(t, perm) ==
    LET shp == [i \in 1..4 |-> t.shape[perm[i] + 1]]
        src(idx) == [j \in 1..4 |-> idx[CHOOSE i \in 1..4 : perm[i] = j - 1]]
    IN  [shape |-> shp, val |-> [idx \in Indices(shp) |-> t.val[src(idx)]]]

\* the permutation build hands to tf.transpose
KernelPermSame == <<0, 1, 2, 3>>

KernelPerm == <<1, 0, 2, 3>>

\* conv_utils.deconv_length(dim_size, stride_size, kernel_size, padding), the
\* Keras function call and compute_output_shape hand these four arguments to
DeconvLengthNoMax(dim_size, stride_size, kernel_size, padding) ==
    IF dim_size = None THEN None
    ELSE IF padding = "valid" THEN dim_size * stride_size + kernel_size - stride_size
    ELSE IF padding = "full" THEN dim_size * stride_size - (stride_size + kernel_size - 2)
    ELSE IF padding = "same" THEN dim_size * stride_size
    ELSE dim_size

DeconvLengthSameAsValid(dim_size, stride_size, kernel_size, padding) ==
    IF dim_size = None THEN None
    ELSE IF padding = "valid" THEN dim_size * stride_size + Max(kernel_size - stride_size, 0)
    ELSE IF padding = "full" THEN dim_size * stride_size - (stride_size + kernel_size - 2)
    ELSE IF padding = "same" THEN dim_size * stride_size + Max(kernel_size - stride_size, 0)
    ELSE dim_size

DeconvLength(dim_size, stride_size, kernel_size, padding) ==
    IF dim_size = None THEN None
    ELSE IF padding = "valid" THEN dim_size * stride_size + Max(kernel_size - stride_size, 0)
    ELSE IF padding = "full" THEN dim_size * stride_size - (stride_size + kernel_size - 2)
    ELSE IF padding = "same" THEN dim_size * stride_size
    ELSE dim_size

\* build: the channel axis of the input shape
ChannelAxisLast(data_format) == -1

ChannelAxis(data_format) == IF data_format = "channels_first" THEN 1 ELSE -1

\* call: the height and width axes of the input
SpatialAxes(data_format) ==
    IF data_format = "channels_first" THEN <<2, 3>> ELSE <<1, 2>>

\* compute_output_shape: the channel, height and width axes
ShapeAxes(data_format) ==
    IF data_format = "channels_first" THEN <<1, 2, 3>> ELSE <<3, 1, 2>>

\* call: whether the output shape is inferred from the input
NeedsInferenceAlways(tos) == TRUE

NeedsInference(tos) == tos = NoShape

\* call: the inferred output shape, in the layer's data format
InferredShape(batch_size, filters, out_height, out_width, data_format) ==
    IF data_format = "channels_first"
    THEN <<batch_size, filters, out_height, out_width>>
    ELSE <<batch_size, out_height, out_width, filters>>

\* call: a stored output shape, reordered when the layer is channels_first
StoredShapeKept(shape, data_format) == shape

StoredShape(shape, data_format) ==
    IF data_format = "channels_first"
    THEN <<shape[1], shape[3], shape[4], shape[2]>>
    ELSE shape

\* call: an unresolved batch slot takes the input's runtime batch size
ResolveBatch(shape, runtime_batch) ==
    IF shape[1] = None THEN <<runtime_batch>> \o Tail(shape) ELSE shape

\* build: the value of self.built once build has run
BuiltAfterBuildToggle(was_built) == ~was_built

BuiltAfterBuild(was_built) == TRUE

\* the classes Conv2DTranspose_tied inherits from, in resolution order
MRO == <<"Conv2DTranspose_tied", "Conv2D", "_Conv", "Layer", "object">>

\* super(cls, self) needs self to be an instance of cls
SuperResolves(cls) == \E i \in 1..Len(MRO) : MRO[i] = cls

\* the keys of the base convolution layer's configuration
BaseConfigKeys ==
    {"filters", "kernel_size", "strides", "padding", "data_format", "activation",
     "use_bias", "kernel_initializer", "bias_initializer", "kernel_regularizer",
     "bias_regularizer", "activity_regularizer", "kernel_constraint",
     "bias_constraint"}

\* ------------------------------------------------------------------ inputs
Paddings == {"valid", "same"}

DataFormats == {"channels_first", "channels_last"}

\* a fixed output shape in the layer's data format, with pairwise distinct
\* slots
FixedShape(b, data_format) ==
    IF data_format = "channels_first"
    THEN <<b, Filters, Filters + 1, Filters + 2>>
    ELSE <<b, Filters + 1, Filters + 2, Filters>>

\* the tied layer's kernel, (rows, cols, input channels, filters), every
\* entry distinct
TiedKernel(kernel_size) ==
    LET shp == <<kernel_size[1], kernel_size[2], Filters, Channels>>
    IN  [shape |-> shp,
         val |-> [idx \in Indices(shp) |->
                    ((idx[1] * shp[2] + idx[2]) * shp[3] + idx[3]) * shp[4] + idx[4]]]

\* the output_shape argument: absent, or fixed with the batch slot unresolved
\* or holding a batch size other than the inputs'
OutputShapes(data_format) ==
    {NoShape, FixedShape(None, data_format), FixedShape(Batch + Filters + 1, data_format)}

\* constructor arguments: kernel_size <<a, b>> with strides <<b, a>> gives
\* each axis every pair of kernel extent and stride
ConfigsOf(data_format) ==
    {[filters |-> Filters,
      kernel_size |-> <<a, b>>,
      strides |-> <<b, a>>,
      padding |-> p,
      data_format |-> data_format,
      use_bias |-> ub,
      output_shape |-> os] :
        a \in 1..MaxKS, b \in 1..MaxKS, p \in Paddings, ub \in BOOLEAN,
        os \in OutputShapes(data_format)}

Configs == UNION {ConfigsOf(df) : df \in DataFormats}

\* the values a channel slot of a shape handed to build may hold
BuildDims == {None, Channels, Filters}

\* shapes handed to build: the rank-4 shapes with every pair of values in the
\* two slots build can read as the channel slot, and for every other rank from
\* 3 to MaxRank the shapes filled with one value
BuildShapes ==
    {<<None, x, Channels, z>> : x \in BuildDims, z \in BuildDims}
    \cup {[i \in 1..r |-> d] : r \in (3..MaxRank) \ {4}, d \in {None, Channels}}

\* a rank-4 shape with the given spatial lengths, in the given data format
Shape4(b, h, w, c, data_format) ==
    IF data_format = "channels_first" THEN <<b, c, h, w>> ELSE <<b, h, w, c>>

\* the spatial sizes of the inputs: height L with width MaxLen + 1 - L gives
\* each axis every length
SpatialSizes == {<<L, MaxLen + 1 - L>> : L \in 1..MaxLen}

\* the inputs handed to call: static shape and runtime batch size; the static
\* batch slot is unresolved or equal to the runtime batch size
CallInputs(data_format) ==
    {[static |-> Shape4(b, hw[1], hw[2], Channels, data_format), batch |-> Batch] :
        b \in {None, Batch}, hw \in SpatialSizes}

\* the shapes handed to compute_output_shape: batch slot unresolved, spatial
\* slots resolved or both unresolved
QueryShapes(data_format) ==
    {Shape4(None, hw[1], hw[2], Channels, data_format) :
        hw \in SpatialSizes \cup {<<None, None>>}}

\* ------------------------------------------------------------------- state
VARIABLES
    cfg,                     \* the constructor's arguments
    tied_kernel,             \* self.tied_to.kernel
    built,                   \* self.built
    kernel,                  \* self.kernel (NoTensor while not assigned)
    bias,                    \* self.bias: 0 not assigned, None, or the k-th weight
    nweights,                \* the number of weights add_weight has allocated
    input_spec,              \* self.input_spec
    transpose_output_shape,  \* self.transpose_output_shape
    last                     \* the latest operation: its argument and outcome

vars == <<cfg, tied_kernel, built, kernel, bias, nweights, input_spec,
          transpose_output_shape, last>>

Outcome(op, arg, batch, result, keys, err) ==
    [op |-> op, arg |-> arg, batch |-> batch, result |-> result, keys |-> keys,
     err |-> err]

\* __init__
Init ==
    /\ cfg \in Configs
    /\ tied_kernel = TiedKernel(cfg.kernel_size)
    /\ built = FALSE
    /\ kernel = NoTensor
    /\ bias = 0
    /\ nweights = 0
    /\ input_spec = [ndim |-> 4, axes |-> <<>>]
    /\ transpose_output_shape = cfg.output_shape
    /\ last = Outcome("init", <<>>, None, NoShape, {}, "none")

\* build: the error it raises for the input shape, if any
BuildError(input_shape) ==
    IF Len(input_shape) # 4 THEN "ValueError"
    ELSE IF Idx(input_shape, ChannelAxis(cfg.data_format)) = None THEN "ValueError"
    ELSE "none"

\* build(input_shape)
Build(input_shape) ==
    LET err == BuildError(input_shape)
        channel_axis == ChannelAxis(cfg.data_format)
    IN  /\ (err # "none") \/ ~cfg.use_bias \/ nweights < MaxBias
        /\ IF err # "none"
           THEN UNCHANGED <<built, kernel, bias, nweights, input_spec>>
           ELSE /\ kernel' = tf_transpose(tied_kernel, KernelPerm)
                /\ nweights' = IF cfg.use_bias THEN nweights + 1 ELSE nweights
                /\ bias' = IF cfg.use_bias THEN nweights + 1 ELSE None
                /\ input_spec' = [ndim |-> 4,
                                  axes |-> <<channel_axis, Idx(input_shape, channel_axis)>>]
                /\ built' = BuiltAfterBuild(built)
        /\ last' = Outcome("build", input_shape, None, NoShape, {}, err)
        /\ UNCHANGED <<cfg, tied_kernel, transpose_output_shape>>

\* call(inputs); it reads self.kernel, which only build assigns
Call(inputs) ==
    LET infer == NeedsInference(transpose_output_shape)
        axes == SpatialAxes(cfg.data_format)
        height == Idx(inputs.static, axes[1])
        width == Idx(inputs.static, axes[2])
        out_height == DeconvLength(height, cfg.strides[1], cfg.kernel_size[1], cfg.padding)
        out_width == DeconvLength(width, cfg.strides[2], cfg.kernel_size[2], cfg.padding)
        inferred == InferredShape(inputs.batch, cfg.filters, out_height, out_width,
                                  cfg.data_format)
        shape == IF infer THEN inferred
                 ELSE ResolveBatch(StoredShape(transpose_output_shape, cfg.data_format),
                                   inputs.batch)
    IN  /\ kernel # NoTensor
        /\ transpose_output_shape' = IF infer THEN inferred ELSE transpose_output_shape
        /\ last' = Outcome("call", inputs.static, inputs.batch, shape, {}, "none")
        /\ UNCHANGED <<cfg, tied_kernel, built, kernel, bias, nweights, input_spec>>

\* compute_output_shape(input_shape)
ComputeOutputShape(input_shape) ==
    LET axes == ShapeAxes(cfg.data_format)
        c_axis == axes[1] + 1
        h_axis == axes[2] + 1
        w_axis == axes[3] + 1
        computed ==
            [i \in 1..4 |->
                IF i = c_axis THEN cfg.filters
                ELSE IF i = h_axis
                THEN DeconvLength(input_shape[i], cfg.strides[1], cfg.kernel_size[1],
                                  cfg.padding)
                ELSE IF i = w_axis
                THEN DeconvLength(input_shape[i], cfg.strides[2], cfg.kernel_size[2],
                                  cfg.padding)
                ELSE input_shape[i]]
        output_shape == IF transpose_output_shape = NoShape THEN computed
                        ELSE transpose_output_shape
    IN  /\ last' = Outcome("compute_output_shape", input_shape, None, output_shape, {},
                           "none")
        /\ UNCHANGED <<cfg, tied_kernel, built, kernel, bias, nweights, input_spec,
                       transpose_output_shape>>

\* get_config(): super(Conv2DTranspose, self) with self no Conv2DTranspose
GetConfig ==
    /\ last' = IF SuperResolves("Conv2DTranspose")
               THEN Outcome("get_config", <<>>, None, transpose_output_shape,
                            BaseConfigKeys \cup {"tied_to", "output_shape"}, "none")
               ELSE Outcome("get_config", <<>>, None, NoShape, {}, "TypeError")
    /\ UNCHANGED <<cfg, tied_kernel, built, kernel, bias, nweights, input_spec,
                   transpose_output_shape>>

Next ==
    \/ \E input_shape \in BuildShapes : Build(input_shape)
    \/ \E inputs \in CallInputs(cfg.data_format) : Call(inputs)
    \/ \E input_shape \in QueryShapes(cfg.data_format) : ComputeOutputShape(input_shape)
    \/ GetConfig

Spec == Init /\ [][Next]_vars

\* -------------------------------------------------------------- properties
\* the slots holding height and width in a shape of the layer's data format
HSlot == IF cfg.data_format = "channels_first" THEN 3 ELSE 2

WSlot == HSlot + 1

\* the slot holding the channels in a shape of the layer's data format
CSlot == IF cfg.data_format = "channels_first" THEN 2 ELSE 4

\* the step is an inference of call, or a compute_output_shape that infers
CallInfers == transpose_output_shape = NoShape /\ last'.op = "call"

QueryInfers == transpose_output_shape = NoShape /\ last'.op = "compute_output_shape"

\* both spatial slots of shape out hold the length want(L, S, K) for the
\* lengths L >= 1 of shape in
LengthsAre(in, out, want(_, _, _)) ==
    /\ in[HSlot] >= 1 => out[HSlot] = want(in[HSlot], cfg.strides[1], cfg.kernel_size[1])
    /\ in[WSlot] >= 1 => out[WSlot] = want(in[WSlot], cfg.strides[2], cfg.kernel_size[2])

ValidLength(L, S, K) == (L - 1) * S + K

ValidLengthOrStride(L, S, K) == IF K >= S THEN (L - 1) * S + K ELSE L * S

SameLength(L, S, K) == L * S

\* C1: once built, the kernel is the tied layer's kernel with its first two
\* axes exchanged, and call, compute_output_shape and get_config never assign it
ThmC1 ==
    /\ [](built =>
            /\ kernel.shape = <<tied_kernel.shape[2], tied_kernel.shape[1],
                                tied_kernel.shape[3], tied_kernel.shape[4]>>
            /\ Cardinality(DOMAIN kernel.val) = Cardinality(DOMAIN tied_kernel.val)
            /\ \A idx \in DOMAIN tied_kernel.val :
                  kernel.val[<<idx[2], idx[1], idx[3], idx[4]>>] = tied_kernel.val[idx])
    /\ [][last'.op \in {"call", "compute_output_shape", "get_config"}
            => kernel' = kernel]_vars

WitC1 ==
    /\ built
    /\ last.op = "call"
    /\ last.err = "none"
    /\ kernel.shape[1] # kernel.shape[2]

\* C2 as stated: with "valid" padding every inferred output length is
\* (L-1)*S + K, also when K < S
CexC2 ==
    [][cfg.padding = "valid" =>
         /\ CallInfers => LengthsAre(last'.arg, transpose_output_shape', ValidLength)
         /\ QueryInfers => LengthsAre(last'.arg, last'.result, ValidLength)]_vars

\* C2 amended: with "valid" padding every inferred output length is
\* (L-1)*S + K when K >= S, and L*S when K < S
ThmC2 ==
    [][cfg.padding = "valid" =>
         /\ CallInfers => LengthsAre(last'.arg, transpose_output_shape', ValidLengthOrStride)
         /\ QueryInfers => LengthsAre(last'.arg, last'.result, ValidLengthOrStride)]_vars

WitC2 ==
    /\ cfg.padding = "valid"
    /\ cfg.output_shape = NoShape
    /\ cfg.kernel_size[1] < cfg.strides[1]
    /\ last.op = "call"
    /\ last.err = "none"
    /\ transpose_output_shape[HSlot] = last.arg[HSlot] * cfg.strides[1]

\* C3: with "same" padding every inferred output length is L*S
ThmC3 ==
    [][cfg.padding = "same" =>
         /\ CallInfers => LengthsAre(last'.arg, transpose_output_shape', SameLength)
         /\ QueryInfers => LengthsAre(last'.arg, last'.result, SameLength)]_vars

WitC3 ==
    /\ cfg.padding = "same"
    /\ cfg.output_shape = NoShape
    /\ cfg.kernel_size[1] # cfg.strides[1]
    /\ last.op = "compute_output_shape"
    /\ last.arg[HSlot] > 1
    /\ last.result[HSlot] = last.arg[HSlot] * cfg.strides[1]

\* C4: build raises ValueError exactly when the input shape has not 4
\* dimensions or its channel slot is None
ThmC4 ==
    last.op = "build" =>
        (last.err = "ValueError"
            <=> \/ Len(last.arg) # 4
                \/ /\ Len(last.arg) = 4
                   /\ last.arg[CSlot] = None)

WitC4 ==
    /\ last.op = "build"
    /\ last.err = "ValueError"
    /\ Len(last.arg) = 4
    /\ cfg.data_format = "channels_first"
    /\ last.arg[4] # None

\* C5: with a fixed output shape (b, c, h, w) and channels_first, call hands
\* (b, h, w, c) to the primitive, b replaced by the runtime batch size when None
ThmC5 ==
    (/\ cfg.output_shape # NoShape
     /\ cfg.data_format = "channels_first"
     /\ last.op = "call"
     /\ last.err = "none")
    => last.result = <<IF cfg.output_shape[1] = None THEN last.batch
                        ELSE cfg.output_shape[1],
                       cfg.output_shape[3], cfg.output_shape[4], cfg.output_shape[2]>>

WitC5 ==
    /\ cfg.output_shape # NoShape
    /\ cfg.data_format = "channels_first"
    /\ last.op = "call"
    /\ last.err = "none"
    /\ cfg.output_shape[1] = None
    /\ last.result[1] = Batch

\* C6 as stated: compute_output_shape returns the shape inferred from its
\* argument whenever no fixed output shape was configured, and the configured
\* shape otherwise
CexC6 ==
    last.op = "compute_output_shape" =>
        IF cfg.output_shape = NoShape
        THEN /\ Len(last.result) = 4
             /\ last.result[1] = last.arg[1]
             /\ last.result[CSlot] = cfg.filters
             /\ last.result[HSlot] = DeconvLength(last.arg[HSlot], cfg.strides[1],
                                                  cfg.kernel_size[1], cfg.padding)
             /\ last.result[WSlot] = DeconvLength(last.arg[WSlot], cfg.strides[2],
                                                  cfg.kernel_size[2], cfg.padding)
        ELSE last.result = cfg.output_shape

\* C7 as stated: get_config returns a mapping with 'tied_to', 'output_shape'
\* and every key of the base configuration
CexC7 ==
    last.op = "get_config" =>
        /\ last.err = "none"
        /\ {"tied_to", "output_shape"} \cup BaseConfigKeys \subseteq last.keys

\* C8 as stated: built is reached once, by a successful build, never left,
\* and a build of a built layer changes nothing
CexC8 ==
    [][/\ built => built'
       /\ (~built /\ built') => (last'.op = "build" /\ last'.err = "none")
       /\ (built /\ last'.op = "build")
            => UNCHANGED <<kernel, bias, nweights, input_spec>>]_vars

\* C8 amended: built is reached once, by a successful build, and never left;
\* a build of a built layer keeps the kernel, and when it passes the shape
\* checks it sets the input spec from its argument and, with use_bias,
\* allocates a further bias weight; when it fails them it changes nothing
ThmC8 ==
    [][/\ built => built'
       /\ (~built /\ built') => (last'.op = "build" /\ last'.err = "none")
       /\ (last'.op = "build" /\ last'.err = "none") => built'
       /\ (built /\ last'.op = "build") =>
            /\ kernel' = kernel
            /\ IF last'.err = "none"
               THEN /\ input_spec'.axes[2] = last'.arg[CSlot]
                    /\ nweights' = nweights + (IF cfg.use_bias THEN 1 ELSE 0)
                    /\ bias' = IF cfg.use_bias THEN nweights' ELSE None
               ELSE UNCHANGED <<bias, nweights, input_spec>>]_vars

WitC8 ==
    /\ built
    /\ last.op = "build"
    /\ last.err = "none"
    /\ nweights = 2
    /\ bias = 2

\* C9: the stored output shape changes only in a call, only while it is unset
\* and no fixed output shape was configured; once set it keeps its value
ThmC9 ==
    [][transpose_output_shape' # transpose_output_shape =>
         /\ last'.op = "call"
         /\ transpose_output_shape = NoShape
         /\ cfg.output_shape = NoShape]_vars

WitC9 ==
    /\ cfg.output_shape = NoShape
    /\ transpose_output_shape # NoShape
    /\ cfg.padding = "same"
    /\ last.op = "call"
    /\ last.err = "none"
    /\ transpose_output_shape[HSlot] # last.arg[HSlot] * cfg.strides[1]

\* C10 as stated: without a fixed output shape, a call on an input of the same
\* shape as the call before it hands the same target shape to the primitive
CexC10 ==
    [][(/\ cfg.output_shape = NoShape
        /\ last.op = "call" /\ last.err = "none"
        /\ last'.op = "call" /\ last'.err = "none"
        /\ last'.arg = last.arg
        /\ last'.batch = last.batch)
       => last'.result = last.result]_vars

====
